---- MODULE Spec2Model ----
(***************************************************************************)
(* A model of the Board class of src/main.py (a 2048 game): the grid, the  *)
(* set of empty cells, the win flag, the cell primitives and the sweep of  *)
(* collapse_board, stepped one inner-loop iteration at a time.             *)
(***************************************************************************)
EXTENDS Integers, Sequences, FiniteSets, TLC

\* ---------------------------------------------------------------- bounds
MaxSize == 3        \* largest board side explored from Board(size)
MaxMoves == 6       \* board-changing collapses explored on a MinSize board
GridSize == 4       \* board side of the drawn grids of SpecGrid
MaxTiles == 3       \* most tiles of a drawn grid that is not a single line
WinSize == 4        \* board side of the drawn grids of SpecWin
WinExtra == 2       \* most tiles beside the two half-Target tiles in SpecWin
GridMoves == 1      \* board-changing collapses explored from a drawn grid
ReadMoves == 1      \* board-changing collapses explored in SpecRead

\* ------------------------------------------------------ program constants
MinSize == 2        \* from_size_input: "Too small! (Minimum 2)"
OutOfRange == -1    \* get_cell: "Returns -1 for inaccessible indices"
NoCarry == -1       \* collapse_board: carry_value when carry_pos is None
NewTile == 2        \* set_random_empty_cell: the value written
InitialTiles == 2   \* __init__: set_random_empty_cell(amount=2)
Target == 2048      \* collapse_board: value + carry_value >= 2048

\* Python's None, encoded as an integer that is neither a tile value nor the
\* -1 sentinel, so that cells, sentinels and None compare as they do in Python.
None == -2
\* carry_pos = None (no carry position)
NoPos == <<>>

Directions == {"W", "A", "S", "D"}

\* The coordinates (i, j) of a size x size board, 0-based as in the code.
Coords(sz) == (0 .. sz - 1) \X (0 .. sz - 1)

\* ------------------------------------------------------------- primitives
\* Python list indexing: a negative index n in -sz..-1 reads element sz + n.
PyIndex(n, sz) == IF n < 0 THEN n + sz ELSE n

\* get_cell raises IndexError when it passes its range test and then indexes
\* a list below -size.
get_cell_raises(sz, i, j) ==
    /\ ~(i > sz - 1 \/ j > sz - 1)
    /\ (i < -sz \/ j < -sz)

get_cell(m, sz, i, j) ==
    IF i > sz - 1 \/ j > sz - 1
    THEN OutOfRange
    ELSE m[<<PyIndex(i, sz), PyIndex(j, sz)>>]

\* Faulty set_cell: stores the value and leaves the empty set alone.
set_cell_keeps_empty(b, pos, v) ==
    [b EXCEPT !.matrix = [@ EXCEPT ![pos] = v]]

\* b is any record with fields matrix and empty_cells.
set_cell(b, pos, v) ==
    [b EXCEPT !.empty_cells = @ \ {pos},
              !.matrix = [@ EXCEPT ![pos] = v]]

\* Faulty reset_cell: adds to the empty set and leaves the matrix alone.
reset_cell_set_only(b, pos) ==
    [b EXCEPT !.empty_cells = @ \cup {pos}]

\* Faulty reset_cell: clears the cell and leaves the empty set alone.
reset_cell_matrix_only(b, pos) ==
    [b EXCEPT !.matrix = [@ EXCEPT ![pos] = None]]

reset_cell(b, pos) ==
    [b EXCEPT !.empty_cells = @ \cup {pos},
              !.matrix = [@ EXCEPT ![pos] = None]]

\* Faulty move_cell: the target is not tested.
move_cell_raises_never(b, sz, new_pos) == FALSE

\* move_cell: the test that raises ValueError
move_cell_raises(b, sz, new_pos) ==
    get_cell(b.matrix, sz, new_pos[1], new_pos[2]) # None

\* move_cell up to and including its set_cell call
move_cell_set(b, old_pos, new_pos) ==
    set_cell(b, new_pos, b.matrix[old_pos])

move_cell(b, old_pos, new_pos) ==
    reset_cell(move_cell_set(b, old_pos, new_pos), old_pos)

\* Faulty merge_cells: stores the value of cell_pos instead of the sum.
merge_cells_set_overwrite(b, sz, cell_pos, merge_pos) ==
    LET keep == [b EXCEPT !.empty_cells = @ \ {merge_pos}]
    IN  [keep EXCEPT !.matrix =
            [@ EXCEPT ![merge_pos] = get_cell(b.matrix, sz, cell_pos[1], cell_pos[2])]]

\* merge_cells up to and including its set_cell call
merge_cells_set(b, sz, cell_pos, merge_pos) ==
    set_cell(b, merge_pos,
             get_cell(b.matrix, sz, cell_pos[1], cell_pos[2])
               + get_cell(b.matrix, sz, merge_pos[1], merge_pos[2]))

merge_cells(b, sz, cell_pos, merge_pos) ==
    reset_cell(merge_cells_set(b, sz, cell_pos, merge_pos), cell_pos)

\* Faulty is_playable: compares a cell with its right neighbour only.
is_playable_right_only(m, e, sz) ==
    \/ e # {}
    \/ \E i \in 0 .. sz - 1, j \in 0 .. sz - 1 :
         get_cell(m, sz, i, j) = get_cell(m, sz, i, j + 1)

\* Faulty is_playable: leaves out the test for an empty cell.
is_playable_no_empty_test(m, e, sz) ==
    \E i \in 0 .. sz - 1, j \in 0 .. sz - 1 :
        LET value == get_cell(m, sz, i, j)
        IN  \/ value = get_cell(m, sz, i, j + 1)
            \/ value = get_cell(m, sz, i + 1, j)

\* is_playable
is_playable(m, e, sz) ==
    \/ e # {}
    \/ \E i \in 0 .. sz - 1, j \in 0 .. sz - 1 :
         LET value == get_cell(m, sz, i, j)
         IN  \/ value = get_cell(m, sz, i, j + 1)
             \/ value = get_cell(m, sz, i + 1, j)

\* ------------------------------------------------- collapse_board: set-up
\* inverted = direction in "WS"
Inverted(d) == d \in {"W", "S"}

\* Faulty inner_iterator: reversed for "WD" instead of "SD".
InnerIterator_WD(d, sz) ==
    IF d \in {"W", "D"}
    THEN [k \in 1 .. sz |-> sz - k]
    ELSE [k \in 1 .. sz |-> k - 1]

\* inner_iterator, as the sequence of inner positions it yields
InnerIterator(d, sz) ==
    IF d \in {"S", "D"}
    THEN [k \in 1 .. sz |-> sz - k]
    ELSE [k \in 1 .. sz |-> k - 1]

\* Faulty current_pos: never inverted (every direction scans rows).
CurrentPos_rows(d, outer, inner) == <<outer, inner>>

\* current_pos
CurrentPos(d, outer, inner) ==
    IF Inverted(d) THEN <<inner, outer>> ELSE <<outer, inner>>

\* ------------------------------------- collapse_board: one loop iteration
\* A frame s is a record of the board's fields (matrix, empty_cells,
\* has_2048), the locals of collapse_board (empty_positions, carry_pos,
\* board_has_changed), the exception raised so far (err), and the history of
\* the call: merges (merges made), merged_sum (sum of the values v of the
\* merged pairs v, v), marks (positions holding a tile a merge of this call
\* made), double_merge (a merge used a marked tile), win_merge (a merge made a
\* value >= Target).

\* carry_value = self.get_cell(*carry_pos) if carry_pos is not None else -1
CarryValue(s, sz) ==
    IF s.carry_pos # NoPos
    THEN get_cell(s.matrix, sz, s.carry_pos[1], s.carry_pos[2])
    ELSE NoCarry

\* Faulty if-chain: the merge branch is taken whenever there is a carry,
\* whatever its value.
Branch_merges_unequal(s, sz, cur) ==
    LET value == get_cell(s.matrix, sz, cur[1], cur[2])
        carry_value == CarryValue(s, sz)
    IN  IF value = None THEN "gap"
        ELSE IF value # carry_value /\ s.empty_positions = <<>> THEN "keep"
        ELSE IF s.carry_pos # NoPos THEN "merge"
        ELSE "move"

\* The branch of the if-chain that an iteration at cur takes.
Branch(s, sz, cur) ==
    LET value == get_cell(s.matrix, sz, cur[1], cur[2])
        carry_value == CarryValue(s, sz)
    IN  IF value = None THEN "gap"
        ELSE IF value # carry_value /\ s.empty_positions = <<>> THEN "keep"
        ELSE IF value = carry_value THEN "merge"
        ELSE "move"

\* Faulty gap branch: appends the gap instead of inserting it at index 0.
GapBranch_append(s, cur) ==
    [s EXCEPT !.empty_positions = @ \o <<cur>>]

\* empty_positions.insert(0, current_pos)
GapBranch(s, cur) ==
    [s EXCEPT !.empty_positions = <<cur>> \o @]

\* carry_pos = current_pos
KeepBranch(s, cur) ==
    [s EXCEPT !.carry_pos = cur]

\* Faulty merge branch: carry_pos is not reset after the merge.
MergeFinish_keeps_carry(s, cur, value, carry_value) ==
    [s EXCEPT !.empty_positions = <<cur>> \o @,
              !.board_has_changed = TRUE,
              !.has_2048 = (value + carry_value >= Target),
              !.merges = @ + 1,
              !.merged_sum = @ + value,
              !.marks = (@ \ {cur}) \cup {s.carry_pos},
              !.double_merge = @ \/ cur \in s.marks \/ s.carry_pos \in s.marks,
              !.win_merge = @ \/ (value + carry_value >= Target)]

\* The merge branch after merge_cells: the gap, the carry, the flags.
MergeFinish(s, cur, value, carry_value) ==
    [s EXCEPT !.empty_positions = <<cur>> \o @,
              !.carry_pos = NoPos,
              !.board_has_changed = TRUE,
              !.has_2048 = (value + carry_value >= Target),
              !.merges = @ + 1,
              !.merged_sum = @ + value,
              !.marks = (@ \ {cur}) \cup {s.carry_pos},
              !.double_merge = @ \/ cur \in s.marks \/ s.carry_pos \in s.marks,
              !.win_merge = @ \/ (value + carry_value >= Target)]

MergeBranch(s, sz, cur) ==
    MergeFinish(merge_cells(s, sz, cur, s.carry_pos), cur,
                get_cell(s.matrix, sz, cur[1], cur[2]), CarryValue(s, sz))

\* empty_pos = empty_positions.pop()
PopTarget(s) == s.empty_positions[Len(s.empty_positions)]
Popped(s) ==
    [s EXCEPT !.empty_positions = SubSeq(@, 1, Len(@) - 1)]

\* The move branch after move_cell: the carry and the new gap.
MoveFinish(s, cur, empty_pos) ==
    [s EXCEPT !.carry_pos = empty_pos,
              !.empty_positions = <<cur>> \o @,
              !.board_has_changed = TRUE,
              !.marks = IF cur \in @ THEN (@ \ {cur}) \cup {empty_pos} ELSE @]

MoveBranch(s, sz, cur) ==
    LET empty_pos == PopTarget(s)
    IN  IF move_cell_raises(s, sz, empty_pos)
        THEN [Popped(s) EXCEPT !.err = "ValueError"]
        ELSE MoveFinish(move_cell(Popped(s), cur, empty_pos), cur, empty_pos)

\* One iteration of the inner loop, whole.
Body(s, sz, cur) ==
    LET branch == Branch(s, sz, cur)
    IN  CASE branch = "gap" -> GapBranch(s, cur)
          [] branch = "keep" -> KeepBranch(s, cur)
          [] branch = "merge" -> MergeBranch(s, sz, cur)
          [] OTHER -> MoveBranch(s, sz, cur)

\* empty_positions, carry_pos = [], None  (at the start of each line)
LineStart(s) ==
    [s EXCEPT !.empty_positions = <<>>, !.carry_pos = NoPos]

\* Faulty start of a call: board_has_changed starts out true.
CallStart_changed(b) ==
    [matrix |-> b.matrix, empty_cells |-> b.empty_cells, has_2048 |-> b.has_2048,
     empty_positions |-> <<>>, carry_pos |-> NoPos, board_has_changed |-> TRUE,
     err |-> "none", merges |-> 0, merged_sum |-> 0, marks |-> {},
     double_merge |-> FALSE, win_merge |-> FALSE]

\* The frame collapse_board starts from on board b.
CallStart(b) ==
    [matrix |-> b.matrix, empty_cells |-> b.empty_cells, has_2048 |-> b.has_2048,
     empty_positions |-> <<>>, carry_pos |-> NoPos, board_has_changed |-> FALSE,
     err |-> "none", merges |-> 0, merged_sum |-> 0, marks |-> {},
     double_merge |-> FALSE, win_merge |-> FALSE]

\* The two nested loops from iteration n on (n counts the iterations made;
\* line n \div sz, inner index (n % sz) + 1), stopping at an exception.
RECURSIVE SweepFrom(_, _, _, _)
SweepFrom(s, sz, d, n) ==
    IF n = sz * sz \/ s.err # "none"
    THEN s
    ELSE LET s0 == IF n % sz = 0 THEN LineStart(s) ELSE s
             cur == CurrentPos(d, n \div sz, InnerIterator(d, sz)[(n % sz) + 1])
         IN  SweepFrom(Body(s0, sz, cur), sz, d, n + 1)

\* The sweep of collapse_board(d) on board b: all of it but the spawn.
Sweep(b, sz, d) == SweepFrom(CallStart(b), sz, d, 0)

\* ------------------------------------------------------------------ state
VARIABLES
    size,               \* self._size
    matrix,             \* self._matrix, a function on Coords(size)
    empty_cells,        \* self._empty_cells
    has_2048,           \* self.has_2048
    pc,                 \* "construct" (in __init__'s set_random_empty_cell),
                        \* "idle" (no call in progress), "scan" (top of an inner
                        \* iteration), "merge_reset" / "move_reset" (inside
                        \* merge_cells / move_cell, after its set_cell),
                        \* "spawn" (in collapse_board's set_random_empty_cell),
                        \* "raised" (an exception left the call)
    amount,             \* iterations set_random_empty_cell has still to make
    direction,          \* collapse_board's argument ("none" before any call)
    outer_pos,          \* the outer loop's variable
    inner_idx,          \* how far inner_iterator is: inner_pos is its inner_idx-th
    empty_positions,    \* the list, first element = Python index 0
    carry_pos,
    board_has_changed,
    value,              \* the locals an iteration holds across merge_cells
    carry_value,
    empty_pos,          \* the local an iteration holds across move_cell
    err,                \* "none", "ValueError" (move_cell), "IndexError"
    merges,             \* history of the current or last call, see the frame
    merged_sum,
    marks,
    double_merge,
    win_merge,
    before,             \* the board when the current or last call started
    swept,              \* the matrix when its sweep ended (before the spawn)
    moves_left,         \* board-changing collapses still explored
    last_read,          \* the last get_cell call made from outside, or NoRead
    last_write          \* the last move_cell or set_cell call made from
                        \* outside, or NoWrite

board_vars == <<matrix, empty_cells, has_2048>>
loop_vars == <<outer_pos, inner_idx>>
held_vars == <<value, carry_value, empty_pos>>
frame_vars == <<matrix, empty_cells, has_2048, empty_positions, carry_pos,
                board_has_changed, err, merges, merged_sum, marks,
                double_merge, win_merge>>
vars == <<size, frame_vars, pc, amount, direction, loop_vars, held_vars,
          before, swept, moves_left, last_read, last_write>>

NoRead == <<>>
NoWrite == <<>>

\* The board as a record.
Board == [matrix |-> matrix, empty_cells |-> empty_cells, has_2048 |-> has_2048]

\* The frame of the call in progress.
Frame ==
    [matrix |-> matrix, empty_cells |-> empty_cells, has_2048 |-> has_2048,
     empty_positions |-> empty_positions, carry_pos |-> carry_pos,
     board_has_changed |-> board_has_changed, err |-> err, merges |-> merges,
     merged_sum |-> merged_sum, marks |-> marks,
     double_merge |-> double_merge, win_merge |-> win_merge]

Apply(f) ==
    /\ matrix' = f.matrix
    /\ empty_cells' = f.empty_cells
    /\ has_2048' = f.has_2048
    /\ empty_positions' = f.empty_positions
    /\ carry_pos' = f.carry_pos
    /\ board_has_changed' = f.board_has_changed
    /\ err' = f.err
    /\ merges' = f.merges
    /\ merged_sum' = f.merged_sum
    /\ marks' = f.marks
    /\ double_merge' = f.double_merge
    /\ win_merge' = f.win_merge

\* current_pos of the iteration in progress
Cur == CurrentPos(direction, outer_pos, InnerIterator(direction, size)[inner_idx])

\* ------------------------------------------------------------ construction
\* Board.__init__ up to its call of set_random_empty_cell(amount=2).
Constructed(sz) ==
    /\ size = sz
    /\ matrix = [p \in Coords(sz) |-> None]
    /\ empty_cells = Coords(sz)
    /\ has_2048 = FALSE
    /\ pc = "construct"
    /\ amount = InitialTiles

\* No call of collapse_board made yet.
NoCall ==
    /\ direction = "none"
    /\ outer_pos = 0
    /\ inner_idx = 1
    /\ empty_positions = <<>>
    /\ carry_pos = NoPos
    /\ board_has_changed = FALSE
    /\ value = None
    /\ carry_value = NoCarry
    /\ empty_pos = NoPos
    /\ err = "none"
    /\ merges = 0
    /\ merged_sum = 0
    /\ marks = {}
    /\ double_merge = FALSE
    /\ win_merge = FALSE
    /\ before = Board
    /\ swept = matrix
    /\ last_read = NoRead
    /\ last_write = NoWrite

\* Board(size) for the sizes from_size_input lets through, up to MaxSize. A
\* board one larger is explored two collapses less deep.
Init ==
    /\ \E sz \in MinSize .. MaxSize : Constructed(sz)
    /\ NoCall
    /\ moves_left = MaxMoves - 2 * (size - MinSize)

\* A board between two calls, given its matrix: the empty set the primitives
\* keep for it, and no win yet.
Drawn(sz, m) ==
    /\ size = sz
    /\ matrix = m
    /\ empty_cells = {p \in Coords(sz) : m[p] = None}
    /\ has_2048 = FALSE
    /\ pc = "idle"
    /\ amount = 0

Tiles(m) == {p \in DOMAIN m : m[p] # None}

\* The tile values of the drawn grids of SpecGrid.
GridValues == {NewTile, 2 * NewTile}

\* A grid of side sz whose only tiles are those of line l (read from index 0)
\* laid in row n (across = TRUE) or in column n.
LineGrid(sz, across, n, l) ==
    [p \in Coords(sz) |->
        IF across /\ p[1] = n THEN l[p[2] + 1]
        ELSE IF ~across /\ p[2] = n THEN l[p[1] + 1]
        ELSE None]

\* A grid of side sz with the tiles v on the coordinates T.
SparseGrid(sz, T, v) ==
    [p \in Coords(sz) |-> IF p \in T THEN v[p] ELSE None]

\* The drawn grids of SpecGrid, each with at least two tiles (a board never
\* has fewer between two calls): every grid of side GridSize over GridValues
\* with at most MaxTiles tiles, and every grid whose tiles fill any part of a
\* single row or column.
InitGrid ==
    /\ \/ \E T \in SUBSET Coords(GridSize) :
            /\ Cardinality(T) >= InitialTiles
            /\ Cardinality(T) <= MaxTiles
            /\ \E v \in [T -> GridValues] :
                 Drawn(GridSize, SparseGrid(GridSize, T, v))
       \/ \E across \in BOOLEAN, n \in 0 .. GridSize - 1 :
            \E l \in [1 .. GridSize -> {None} \cup GridValues] :
               /\ Cardinality({k \in 1 .. GridSize : l[k] # None}) >= InitialTiles
               /\ Drawn(GridSize, LineGrid(GridSize, across, n, l))
    /\ NoCall
    /\ moves_left = GridMoves

\* Every grid of side WinSize with two tiles of half the Target in one row or
\* one column (where one collapse can merge them) and at most WinExtra tiles
\* of value NewTile.
InitWin ==
    /\ \E T \in SUBSET Coords(WinSize) :
          /\ Cardinality(T) = 2
          /\ \E p \in T, q \in T : p # q /\ (p[1] = q[1] \/ p[2] = q[2])
          /\ \E U \in SUBSET (Coords(WinSize) \ T) :
                /\ Cardinality(U) <= WinExtra
                /\ Drawn(WinSize,
                         [p \in Coords(WinSize) |->
                            IF p \in T THEN Target \div 2
                            ELSE IF p \in U THEN NewTile ELSE None])
    /\ NoCall
    /\ moves_left = GridMoves

\* Board(size) as in Init, explored ReadMoves collapses deep.
InitRead ==
    /\ \E sz \in MinSize .. MaxSize : Constructed(sz)
    /\ NoCall
    /\ moves_left = ReadMoves

\* ------------------------------------------------------------------ actions
\* Faulty set_random_empty_cell: draws the cell from all cells of the grid, not
\* from the empty ones.
SpawnTile_any_cell ==
    /\ pc \in {"construct", "spawn"}
    /\ IF empty_cells = {}
       THEN /\ pc' = "raised"
            /\ err' = "IndexError"
            /\ UNCHANGED <<matrix, empty_cells, has_2048, empty_positions,
                           carry_pos, board_has_changed, merges, merged_sum,
                           marks, double_merge, win_merge, amount, moves_left>>
       ELSE /\ \E cell \in Coords(size) : Apply(set_cell(Frame, cell, NewTile))
            /\ amount' = amount - 1
            /\ pc' = IF amount = 1 THEN "idle" ELSE pc
            /\ moves_left' = IF pc = "spawn" /\ amount = 1
                             THEN moves_left - 1 ELSE moves_left
    /\ UNCHANGED <<size, direction, loop_vars, held_vars, before, swept, last_read,
                   last_write>>

\* set_random_empty_cell: one iteration of its loop, in __init__ or at the end
\* of collapse_board. random.choice of an empty tuple raises IndexError.
SpawnTile ==
    /\ pc \in {"construct", "spawn"}
    /\ IF empty_cells = {}
       THEN /\ pc' = "raised"
            /\ err' = "IndexError"
            /\ UNCHANGED <<matrix, empty_cells, has_2048, empty_positions,
                           carry_pos, board_has_changed, merges, merged_sum,
                           marks, double_merge, win_merge, amount, moves_left>>
       ELSE /\ \E cell \in empty_cells : Apply(set_cell(Frame, cell, NewTile))
            /\ amount' = amount - 1
            /\ pc' = IF amount = 1 THEN "idle" ELSE pc
            /\ moves_left' = IF pc = "spawn" /\ amount = 1
                             THEN moves_left - 1 ELSE moves_left
    /\ UNCHANGED <<size, direction, loop_vars, held_vars, before, swept, last_read,
                   last_write>>

\* collapse_board(d): the call, up to the first iteration.
CollapseBoard(d) ==
    /\ pc = "idle"
    /\ moves_left > 0
    /\ Apply(CallStart(Board))
    /\ direction' = d
    /\ outer_pos' = 0
    /\ inner_idx' = 1
    /\ pc' = "scan"
    /\ before' = Board
    /\ swept' = matrix
    /\ last_read' = NoRead
    /\ UNCHANGED <<size, amount, held_vars, moves_left, last_write>>

\* Faulty test: spawn whatever the sweep did.
SpawnDue_always(f) == TRUE

\* if board_has_changed:  (the test before the spawn)
SpawnDue(f) == f.board_has_changed

\* The end of an iteration whose body left frame f: the next iteration, the
\* next line, or the end of the sweep and the spawn if it is due.
EndIteration(f) ==
    /\ Apply(IF inner_idx < size THEN f ELSE LineStart(f))
    /\ inner_idx' = IF inner_idx < size THEN inner_idx + 1 ELSE 1
    /\ outer_pos' = IF inner_idx < size THEN outer_pos
                    ELSE IF outer_pos < size - 1 THEN outer_pos + 1 ELSE 0
    /\ IF inner_idx < size \/ outer_pos < size - 1
       THEN pc' = "scan" /\ UNCHANGED <<amount, swept>>
       ELSE /\ swept' = f.matrix
            /\ IF SpawnDue(f)
               THEN pc' = "spawn" /\ amount' = 1
               ELSE pc' = "idle" /\ UNCHANGED amount
    /\ value' = None
    /\ carry_value' = NoCarry
    /\ empty_pos' = NoPos
    /\ UNCHANGED <<size, direction, before, moves_left, last_read, last_write>>

\* if value is None
ScanGap ==
    /\ pc = "scan"
    /\ Branch(Frame, size, Cur) = "gap"
    /\ EndIteration(GapBranch(Frame, Cur))

\* elif value != carry_value and not empty_positions
ScanKeep ==
    /\ pc = "scan"
    /\ Branch(Frame, size, Cur) = "keep"
    /\ EndIteration(KeepBranch(Frame, Cur))

\* elif value == carry_value: merge_cells, up to its set_cell
ScanMerge ==
    /\ pc = "scan"
    /\ Branch(Frame, size, Cur) = "merge"
    /\ Apply(merge_cells_set(Frame, size, Cur, carry_pos))
    /\ value' = get_cell(matrix, size, Cur[1], Cur[2])
    /\ carry_value' = CarryValue(Frame, size)
    /\ pc' = "merge_reset"
    /\ UNCHANGED <<size, amount, direction, loop_vars, empty_pos, before, swept,
                   moves_left, last_read, last_write>>

\* merge_cells' reset_cell, and the rest of the merge branch
MergeReset ==
    /\ pc = "merge_reset"
    /\ EndIteration(MergeFinish(reset_cell(Frame, Cur), Cur, value, carry_value))

\* else: empty_positions.pop() and move_cell, up to its set_cell
ScanMove ==
    /\ pc = "scan"
    /\ Branch(Frame, size, Cur) = "move"
    /\ IF move_cell_raises(Frame, size, PopTarget(Frame))
       THEN /\ Apply([Popped(Frame) EXCEPT !.err = "ValueError"])
            /\ pc' = "raised"
       ELSE /\ Apply(move_cell_set(Popped(Frame), Cur, PopTarget(Frame)))
            /\ pc' = "move_reset"
    /\ empty_pos' = PopTarget(Frame)
    /\ UNCHANGED <<size, amount, direction, loop_vars, value, carry_value, before,
                   swept, moves_left, last_read, last_write>>

\* move_cell's reset_cell, and the rest of the move branch
MoveReset ==
    /\ pc = "move_reset"
    /\ EndIteration(MoveFinish(reset_cell(Frame, Cur), Cur, empty_pos))

Next ==
    \/ SpawnTile
    \/ \E d \in Directions : CollapseBoard(d)
    \/ ScanGap
    \/ ScanKeep
    \/ ScanMerge
    \/ MergeReset
    \/ ScanMove
    \/ MoveReset

\* get_cell(i, j) called from outside on a board between two calls (once
\* between two calls), with coordinates up to two outside the grid on either
\* side.
GetCellCall(i, j) ==
    /\ pc = "idle"
    /\ last_read = NoRead
    /\ last_read' = [i |-> i, j |-> j,
                     raised |-> get_cell_raises(size, i, j),
                     result |-> IF get_cell_raises(size, i, j) THEN None
                                ELSE get_cell(matrix, size, i, j)]
    /\ UNCHANGED <<size, frame_vars, pc, amount, direction, loop_vars, held_vars,
                   before, swept, moves_left, last_write>>

NextRead ==
    \/ Next
    \/ \E i \in -(size + 2) .. size + 1, j \in -(size + 2) .. size + 1 :
          GetCellCall(i, j)

\* move_cell(old_pos, new_pos) called from outside on a board between two
\* calls, for any two cells of the grid (old_pos empty or not, the two equal or
\* not). The board it leaves is explored no further.
MoveCellCall(old_pos, new_pos) ==
    /\ pc = "idle"
    /\ IF move_cell_raises(Frame, size, new_pos)
       THEN Apply([Frame EXCEPT !.err = "ValueError"])
       ELSE Apply(move_cell(Frame, old_pos, new_pos))
    /\ last_write' = [op |-> "move_cell", old_pos |-> old_pos,
                      new_pos |-> new_pos,
                      raised |-> move_cell_raises(Frame, size, new_pos),
                      pre |-> Board]
    /\ pc' = "written"
    /\ UNCHANGED <<size, amount, direction, loop_vars, held_vars, before, swept,
                   moves_left, last_read>>

\* The values set_cell is called with from outside: a tile value and the
\* values that are not positive integers nearest to it.
SetValues == {-1, 0, NewTile}

\* set_cell(i, j, value) called from outside on a board between two calls, for
\* any cell of the grid. set_cell has no raise statement, and removing an
\* absent coordinate from the set is caught (KeyError). The board it leaves is
\* explored no further.
SetCellCall(pos, v) ==
    /\ pc = "idle"
    /\ Apply(set_cell(Frame, pos, v))
    /\ last_write' = [op |-> "set_cell", pos |-> pos, value |-> v,
                      raised |-> FALSE, pre |-> Board]
    /\ pc' = "written"
    /\ UNCHANGED <<size, amount, direction, loop_vars, held_vars, before, swept,
                   moves_left, last_read>>

NextWrite ==
    \/ Next
    \/ \E old_pos \in Coords(size), new_pos \in Coords(size) :
          MoveCellCall(old_pos, new_pos)
    \/ \E pos \in Coords(size), v \in SetValues : SetCellCall(pos, v)

Spec == Init /\ [][Next]_vars
SpecGrid == InitGrid /\ [][Next]_vars
SpecWin == InitWin /\ [][Next]_vars
SpecRead == InitRead /\ [][NextRead]_vars
SpecWrite == InitRead /\ [][NextWrite]_vars

\* ------------------------------------------------------------- properties
TypeOK ==
    /\ size >= MinSize
    /\ DOMAIN matrix = Coords(size)
    /\ empty_cells \subseteq Coords(size)
    /\ has_2048 \in BOOLEAN
    /\ pc \in {"construct", "idle", "scan", "merge_reset", "move_reset",
               "spawn", "raised", "written"}

\* A call of collapse_board has returned (and none is in progress).
Returned == pc = "idle" /\ direction # "none"

\* The sweep of a call has just ended: at the spawn if it changed the board,
\* at the return if not (nothing then happens between the two).
SweepEnded == pc = "spawn" \/ (Returned /\ ~board_has_changed)

\* The stepped sweep and the sweep as one function agree: when the loops end,
\* the frame is the one Sweep computes from the board the call started on.
SweepAgrees ==
    pc = "spawn" =>
        LET f == Sweep(before, size, direction)
        IN  /\ f.matrix = matrix
            /\ f.empty_cells = empty_cells
            /\ f.has_2048 = has_2048
            /\ f.board_has_changed = board_has_changed
            /\ f.merges = merges

\* ---- C1
\* C1: after every primitive call (set_cell, reset_cell, and so inside and
\* after move_cell, merge_cells and set_random_empty_cell), a coordinate is in
\* _empty_cells if and only if its cell of _matrix is None.
C1_EmptySetInSync ==
    \A p \in Coords(size) : p \in empty_cells <=> matrix[p] = None

\* C1 witness: inside move_cell, between its set_cell and its reset_cell, on
\* a board that already lost a tile to a merge in this call.
C1_Witness ==
    /\ pc = "move_reset"
    /\ merges > 0
    /\ Cur \notin empty_cells
    /\ empty_pos \notin empty_cells

\* ---- C2: the reference rule of 2048 for one line
RECURSIVE DropGaps(_)
DropGaps(l) ==
    IF l = <<>> THEN <<>>
    ELSE IF Head(l) = None THEN DropGaps(Tail(l))
    ELSE <<Head(l)>> \o DropGaps(Tail(l))

RECURSIVE MergePairs(_)
MergePairs(t) ==
    IF Len(t) < 2 THEN t
    ELSE IF t[1] = t[2] THEN <<t[1] + t[2]>> \o MergePairs(Tail(Tail(t)))
    ELSE <<t[1]>> \o MergePairs(Tail(t))

\* l is a line read from the compaction edge.
RefLine(l) ==
    LET t == MergePairs(DropGaps(l))
    IN  [k \in 1 .. Len(l) |-> IF k <= Len(t) THEN t[k] ELSE None]

\* The k-th coordinate of line number `line` for direction d, counted from the
\* edge the tiles move to: W the top row, A the left column, S the bottom
\* row, D the right column.
RefCoord(d, sz, line, k) ==
    CASE d = "W" -> <<k - 1, line>>
      [] d = "S" -> <<sz - k, line>>
      [] d = "A" -> <<line, k - 1>>
      [] d = "D" -> <<line, sz - k>>

\* Line number `line` of grid m for direction d, read from the compaction edge.
RefRead(m, sz, d, line) == [k \in 1 .. sz |-> m[RefCoord(d, sz, line, k)]]

\* C2: when the sweep of collapse_board(direction) ends, every line of the
\* grid is the reference collapse of that line of the grid the call started
\* on: gaps dropped, equal neighbours merged once from the compaction edge on,
\* results packed against the edge.
C2_SweepIsReference ==
    SweepEnded =>
        \A line \in 0 .. size - 1 :
            RefRead(swept, size, direction, line)
              = RefLine(RefRead(before.matrix, size, direction, line))

\* C2 witness: a sweep is over in which one line merged twice and a tile moved
\* over a gap (so some line was like [2,2,2,2] or [2,_,2,2]).
C2_Witness ==
    /\ pc = "spawn"
    /\ merges >= 2
    /\ \E p \in Coords(size), q \in Coords(size) :
          /\ p # q
          /\ p \in marks /\ q \in marks
          /\ (IF Inverted(direction) THEN p[2] = q[2] ELSE p[1] = q[1])

\* ---- C3
\* C3: if a merge of a collapse_board call made a value >= 2048, has_2048 is
\* true when that call has returned.
C3_WinFlagAtReturn ==
    (Returned /\ win_merge) => has_2048

\* ---- C4
\* C4: once has_2048 is true, no step (no later merge of the sweep, no later
\* call) makes it false.
C4_WinFlagMonotonic ==
    [][has_2048 => has_2048']_vars

\* ---- C5
\* C5: no merge of a sweep takes, as its source or as its target, a tile that
\* a merge of the same sweep made.
C5_SingleMergePerTile ==
    ~double_merge

\* C5 witness: a sweep has ended with a tile made by a merge lying, along the
\* line, right before a tile of the same value (as [2,2,4] gives [4,4,_]).
C5_Witness ==
    /\ pc = "spawn"
    /\ \E line \in 0 .. size - 1, k \in 1 .. size - 1 :
          /\ RefCoord(direction, size, line, k) \in marks
          /\ matrix[RefCoord(direction, size, line, k)]
               = matrix[RefCoord(direction, size, line, k + 1)]

\* ---- C6
\* Some direction's sweep moves or merges a tile of the board.
SomeMove ==
    \E d \in Directions : Sweep(Board, size, d).board_has_changed

\* C6: between two calls, is_playable is true exactly when some direction's
\* sweep moves or merges at least one tile.
C6_PlayableIffSomeMove ==
    pc = "idle" => (is_playable(matrix, empty_cells, size) <=> SomeMove)

\* C6 witness: the full 2 x 2 board [[2,4],[4,2]], which is not playable.
C6_Witness ==
    /\ pc = "idle"
    /\ size = 2
    /\ matrix[<<0, 0>>] = 2 /\ matrix[<<0, 1>>] = 4
    /\ matrix[<<1, 0>>] = 4 /\ matrix[<<1, 1>>] = 2
    /\ ~is_playable(matrix, empty_cells, size)

\* ---- C7
\* C7: when collapse_board has returned, its flag board_has_changed says
\* whether the sweep changed the grid; if it did, the grid is the swept grid
\* with one cell that the sweep left empty now holding 2, and if it did not,
\* the matrix, the empty set and has_2048 are those the call started on.
C7_SpawnIffChanged ==
    Returned =>
        /\ board_has_changed <=> (swept # before.matrix)
        /\ IF board_has_changed
           THEN \E p \in Coords(size) :
                   /\ swept[p] = None
                   /\ matrix = [swept EXCEPT ![p] = NewTile]
           ELSE Board = before

\* C7 witness: a call that only moved tiles has returned, with its new tile.
C7_Witness ==
    /\ Returned
    /\ board_has_changed
    /\ merges = 0
    /\ Cardinality(Tiles(matrix)) = Cardinality(Tiles(before.matrix)) + 1

\* ---- C8
\* At the top of an iteration of the sweep, or at its end.
InSweep == pc = "scan" \/ SweepEnded

\* C8: all along the sweep, the number of occupied cells is the number the
\* call started with minus the number of merges made so far (so a merge takes
\* one away and a move none).
C8_TileCount ==
    InSweep =>
        Cardinality(Tiles(matrix)) = Cardinality(Tiles(before.matrix)) - merges

\* C8 witness: a sweep has ended after two merges, two tiles fewer on the grid.
C8_Witness ==
    /\ pc = "spawn"
    /\ merges = 2
    /\ Cardinality(Tiles(matrix)) = Cardinality(Tiles(before.matrix)) - 2

\* ---- C9
RECURSIVE SumOver(_, _)
SumOver(m, S) ==
    IF S = {} THEN 0
    ELSE LET p == CHOOSE q \in S : TRUE
         IN  m[p] + SumOver(m, S \ {p})

\* The sum of the tile values of grid m.
TileSum(m) == SumOver(m, Tiles(m))

\* C9 as stated: all along the sweep, the sum of the tile values is the sum
\* the call started with plus v for every merge of two tiles v made so far.
C9_SumGrowsByMerged ==
    InSweep => TileSum(matrix) = TileSum(before.matrix) + merged_sum

\* C9 amended: all along the sweep, the sum of the tile values is the sum the
\* call started with; a merge of v and v into 2v leaves it unchanged, as a
\* move does.
C9_SumConserved ==
    InSweep => TileSum(matrix) = TileSum(before.matrix)

\* C9 witness: a sweep that merged has ended.
C9_Witness ==
    /\ pc = "spawn"
    /\ merges > 0
    /\ merged_sum >= NewTile
    /\ TileSum(swept) = TileSum(before.matrix)

\* ---- C10
\* C10: a get_cell call never raises; outside [0, size) it returns a sentinel
\* that is neither None nor the value of any cell, and inside, the cell.
C10_ReadSafety ==
    last_read # NoRead =>
        /\ ~last_read.raised
        /\ IF last_read.i \in 0 .. size - 1 /\ last_read.j \in 0 .. size - 1
           THEN last_read.result = matrix[<<last_read.i, last_read.j>>]
           ELSE /\ last_read.result = OutOfRange
                /\ last_read.result # None
                /\ \A p \in Coords(size) : matrix[p] # last_read.result

\* ---- C11
\* The call in progress, or the last one made, started on a board on which
\* is_playable was false.
StartedStuck ==
    /\ direction # "none"
    /\ ~is_playable(before.matrix, before.empty_cells, size)

\* C11: a call of collapse_board, in any direction, on a board on which
\* is_playable is false moves nothing, merges nothing and spawns nothing: all
\* along the call and after it the board is the one the call started on, no
\* change is recorded, and is_playable is still false (so the same holds for
\* every further call).
C11_StuckIsAbsorbing ==
    StartedStuck =>
        /\ pc \in {"scan", "idle"}
        /\ Board = before
        /\ ~board_has_changed
        /\ merges = 0
        /\ ~is_playable(matrix, empty_cells, size)

\* C11 witness: a second call in a row on a stuck board has returned.
C11_Witness ==
    /\ StartedStuck
    /\ Returned
    /\ moves_left > 0
    /\ Board = before
    /\ \E p \in Coords(size) : matrix[p] > NewTile

\* ---- C12
\* Grid m is collapsed for direction d: in every line, read from the edge the
\* tiles move to, no tile follows an empty cell and no two neighbouring tiles
\* are equal.
Collapsed(m, sz, d) ==
    \A line \in 0 .. sz - 1, k \in 1 .. sz - 1 :
        LET here == m[RefCoord(d, sz, line, k)]
            next == m[RefCoord(d, sz, line, k + 1)]
        IN  IF here = None THEN next = None ELSE next # here

\* C12: a call collapse_board(d) on a grid that is collapsed for d changes
\* nothing and spawns nothing: all along the call and after it the board is
\* the one it started on and no change is recorded. In particular, when the
\* sweep of a call leaves such a grid, the same sweep made again on it (no
\* spawn in between) reports no change and leaves the grid as it is.
C12_NoOpOnCollapsed ==
    /\ (direction # "none" /\ Collapsed(before.matrix, size, direction)) =>
           /\ pc \in {"scan", "idle"}
           /\ Board = before
           /\ ~board_has_changed
    /\ (pc = "spawn" /\ Collapsed(matrix, size, direction)) =>
           LET again == Sweep(Board, size, direction)
           IN  /\ ~again.board_has_changed
               /\ again.matrix = matrix
               /\ again.empty_cells = empty_cells

\* C12 witness: a call has returned that started on a playable grid collapsed
\* for its direction, with a line of at least two tiles.
C12_Witness ==
    /\ Returned
    /\ Collapsed(before.matrix, size, direction)
    /\ before.empty_cells # {}
    /\ \E line \in 0 .. size - 1 :
           /\ before.matrix[RefCoord(direction, size, line, 1)] # None
           /\ before.matrix[RefCoord(direction, size, line, 2)] # None
    /\ Board = before

\* ---- C13
\* The grid set_random_empty_cell was called on, for the call in progress or
\* the last one made: the empty grid of __init__, or the swept grid.
SpawnBase == IF direction = "none" THEN [p \in Coords(size) |-> None] ELSE swept

\* The amount that call was given.
SpawnAmount == IF direction = "none" THEN InitialTiles ELSE 1

\* set_random_empty_cell is running, or was the last thing to change the board.
InSpawn ==
    \/ pc \in {"construct", "spawn"}
    \/ pc = "idle" /\ (direction = "none" \/ board_has_changed)

\* C13: set_random_empty_cell(amount=n) writes 2 into n distinct cells that
\* were empty when it was called and changes no other cell (after each of its
\* iterations: as many cells as iterations made); so a freshly constructed
\* board has exactly two cells holding 2, every other cell empty, has_2048
\* false.
C13_SpawnFrame ==
    /\ InSpawn =>
           LET written == {p \in Coords(size) : matrix[p] # SpawnBase[p]}
           IN  /\ Cardinality(written) = SpawnAmount - amount
               /\ \A p \in written : SpawnBase[p] = None /\ matrix[p] = 2
    /\ (pc = "idle" /\ direction = "none") =>
           /\ Cardinality({p \in Coords(size) : matrix[p] = 2}) = 2
           /\ \A p \in Coords(size) : matrix[p] \in {2, None}
           /\ ~has_2048

\* C13 witness: a board larger than the smallest one is freshly constructed,
\* its two tiles in one row.
C13_Witness ==
    /\ pc = "idle"
    /\ direction = "none"
    /\ size > MinSize
    /\ amount = 0
    /\ \E i \in 0 .. size - 1, j \in 0 .. size - 2 :
           matrix[<<i, j>>] = NewTile /\ matrix[<<i, j + 1>>] = NewTile

\* ---- C14
\* C14: move_cell(old_pos, new_pos) raises whenever new_pos is occupied, and
\* then the matrix and the empty set (the whole board) are as before the call;
\* when new_pos is empty it does not raise, new_pos holds what old_pos held,
\* old_pos is empty, and no other cell has changed.
C14_MoveCell ==
    (last_write # NoWrite /\ last_write.op = "move_cell") =>
        LET pre == last_write.pre
            old_pos == last_write.old_pos
            new_pos == last_write.new_pos
        IN  IF pre.matrix[new_pos] # None
            THEN /\ last_write.raised
                 /\ err = "ValueError"
                 /\ Board = pre
            ELSE /\ ~last_write.raised
                 /\ err = "none"
                 /\ matrix[old_pos] = None
                 /\ old_pos # new_pos => matrix[new_pos] = pre.matrix[old_pos]
                 /\ \A p \in Coords(size) \ {old_pos, new_pos} :
                        matrix[p] = pre.matrix[p]

\* C14 witness: a move of a tile onto another tile was refused.
C14_Witness ==
    /\ last_write # NoWrite
    /\ last_write.op = "move_cell"
    /\ last_write.raised
    /\ last_write.old_pos # last_write.new_pos
    /\ matrix[last_write.old_pos] # None
    /\ matrix[last_write.new_pos] # None

\* ---- C15
\* C15: set_cell(i, j, value) with a value that is not a positive integer
\* raises, stores nothing and leaves the empty set as it was.
C15_SetCellRejects ==
    (last_write # NoWrite /\ last_write.op = "set_cell" /\ last_write.value <= 0) =>
        /\ last_write.raised
        /\ Board = last_write.pre

\* ---- C16
\* The place of coordinate p in the line being scanned, counted from the edge
\* the tiles move to (1 = at the edge); 0 if p is not in that line.
PlaceInLine(p) ==
    IF \E k \in 1 .. size : RefCoord(direction, size, outer_pos, k) = p
    THEN CHOOSE k \in 1 .. size : RefCoord(direction, size, outer_pos, k) = p
    ELSE 0

\* C16: all along every call of collapse_board, every coordinate of
\* empty_positions is an empty cell of the line being scanned; the list is in
\* order, farthest from the compaction edge first, so that pop() (the last
\* element) is the gap nearest to the edge; and move_cell, called with the
\* popped gap, never raises.
C16_GapsInSync ==
    /\ \A k \in 1 .. Len(empty_positions) :
           /\ matrix[empty_positions[k]] = None
           /\ PlaceInLine(empty_positions[k]) > 0
           /\ k < Len(empty_positions) =>
                  PlaceInLine(empty_positions[k])
                    > PlaceInLine(empty_positions[k + 1])
    /\ pc = "scan" /\ empty_positions # <<>> =>
           \A p \in Coords(size) :
               (PlaceInLine(p) > 0 /\ PlaceInLine(p) < PlaceInLine(Cur)
                  /\ matrix[p] = None)
                 => PlaceInLine(PopTarget(Frame)) <= PlaceInLine(p)
    /\ err # "ValueError"

\* C16 witness: move_cell has just written a tile into the popped gap, the
\* nearest of several gaps of its line.
C16_Witness ==
    /\ pc = "move_reset"
    /\ err = "none"
    /\ empty_positions # <<>>
    /\ matrix[empty_pos] # None
    /\ PlaceInLine(empty_pos) < PlaceInLine(empty_positions[Len(empty_positions)])

\* ---- C17
\* C17: whenever collapse_board reaches its spawn (board_has_changed is true),
\* _empty_cells holds at least one coordinate, so random.choice in
\* set_random_empty_cell never raises IndexError (nor does it in __init__).
C17_SpawnNeverExhausts ==
    /\ pc = "spawn" => board_has_changed /\ Cardinality(empty_cells) >= amount
    /\ pc = "construct" => Cardinality(empty_cells) >= amount
    /\ err # "IndexError"

\* C17 witness: a call on a full board has merged one pair and spawned into
\* the one cell that merge freed.
C17_Witness ==
    /\ Returned
    /\ board_has_changed
    /\ before.empty_cells = {}
    /\ merges = 1
    /\ empty_cells = {}
    /\ err = "none"

\* ---- C18
\* Grid m of side sz mirrored left to right, mirrored top to bottom, and
\* transposed.
MirrorH(m, sz) == [p \in Coords(sz) |-> m[<<p[1], sz - 1 - p[2]>>]]
MirrorV(m, sz) == [p \in Coords(sz) |-> m[<<sz - 1 - p[1], p[2]>>]]
Transpose(m, sz) == [p \in Coords(sz) |-> m[<<p[2], p[1]>>]]

\* The sweep of collapse_board(d), without the spawn, on a board whose grid is
\* m.
SweepGrid(m, sz, d) ==
    Sweep([matrix |-> m, empty_cells |-> {p \in Coords(sz) : m[p] = None},
           has_2048 |-> FALSE], sz, d)

\* C18: with the spawn left out, on every grid: sweeping D is mirroring left
\* to right, sweeping A and mirroring back; sweeping W is transposing,
\* sweeping A and transposing back; sweeping S is mirroring top to bottom,
\* sweeping W and mirroring back; and the two sweeps of each pair agree on
\* board_has_changed. (Evaluated on the drawn grids and on the grids a call
\* collapse_board("A") returned.)
C18_DirectionSymmetry ==
    (pc = "idle" /\ direction \in {"none", "A"}) =>
        LET d_ == SweepGrid(matrix, size, "D")
            a_ == SweepGrid(MirrorH(matrix, size), size, "A")
            w_ == SweepGrid(matrix, size, "W")
            t_ == SweepGrid(Transpose(matrix, size), size, "A")
            s_ == SweepGrid(matrix, size, "S")
            v_ == SweepGrid(MirrorV(matrix, size), size, "W")
        IN  /\ d_.matrix = MirrorH(a_.matrix, size)
            /\ d_.board_has_changed = a_.board_has_changed
            /\ w_.matrix = Transpose(t_.matrix, size)
            /\ w_.board_has_changed = t_.board_has_changed
            /\ s_.matrix = MirrorV(v_.matrix, size)
            /\ s_.board_has_changed = v_.board_has_changed

\* C18 witness: a grid that is not its own mirror image or transpose, on which
\* the sweep of D merges and the sweep of W only moves.
C18_Witness ==
    /\ pc = "idle"
    /\ MirrorH(matrix, size) # matrix
    /\ MirrorV(matrix, size) # matrix
    /\ Transpose(matrix, size) # matrix
    /\ SweepGrid(matrix, size, "D").merges > 0
    /\ SweepGrid(matrix, size, "W").merges = 0
    /\ SweepGrid(matrix, size, "W").board_has_changed

\* ---- C19
\* n is a power of two (1, 2, 4, ...).
RECURSIVE IsPowerOfTwo(_)
IsPowerOfTwo(n) ==
    \/ n = 1
    \/ n > 1 /\ n % 2 = 0 /\ IsPowerOfTwo(n \div 2)

\* C19: in every reachable state every occupied cell holds a power of two that
\* is at least 2, and every merge combines two tiles of equal value (seen
\* inside merge_cells, where the target already holds the sum).
C19_PowersOfTwo ==
    /\ \A p \in Coords(size) :
           matrix[p] # None => matrix[p] >= 2 /\ IsPowerOfTwo(matrix[p])
    /\ pc = "merge_reset" =>
           /\ value # None
           /\ value = carry_value
           /\ matrix[Cur] = value
           /\ matrix[carry_pos] = 2 * value

\* C19 witness: two tiles that are themselves merge products are being merged.
C19_Witness ==
    /\ pc = "merge_reset"
    /\ value = carry_value
    /\ value >= 2 * NewTile
    /\ matrix[carry_pos] >= 4 * NewTile

\* ---- C20
\* The number of calls of collapse_board so far that changed the board: the
\* exploration starts with MaxMoves - 2 * (size - MinSize) of them to make and
\* the spawn that ends each one takes one from moves_left.
ChangedCalls == MaxMoves - 2 * (size - MinSize) - moves_left

\* C20: a complete call of collapse_board increases the sum of the tile values
\* by exactly 2 when it changes the board and by 0 when it does not; so between
\* calls, and in a call before its spawn, the sum is 4 plus 2 for every
\* board-changing call made since the construction.
C20_SumGrowsByTwo ==
    /\ Returned =>
           TileSum(matrix)
             = TileSum(before.matrix) + (IF board_has_changed THEN 2 ELSE 0)
    /\ pc \in {"idle", "scan", "spawn"} =>
           TileSum(matrix) = 4 + 2 * ChangedCalls

\* C20 witness: after at least three board-changing calls, one of them
\* merging, a call has returned that changed nothing.
C20_Witness ==
    /\ Returned
    /\ ~board_has_changed
    /\ ChangedCalls >= 3
    /\ \E p \in Coords(size) : matrix[p] > NewTile
    /\ TileSum(matrix) = TileSum(before.matrix)
    /\ TileSum(matrix) >= 10

====
